---------------------------- MODULE Spec2Model ----------------------------
(***************************************************************************)
(* A model of two Home Assistant integrations:                             *)
(*                                                                         *)
(*   - ambient_network/config_flow.py: ConfigFlow.create_mnemonic, the     *)
(*     station mnemonic generator (specification SpecMnemonic);            *)
(*   - hydrawise/coordinator.py: the polling coordinator and its daily     *)
(*     water use reconciliation (specification SpecPoll);                  *)
(*   - hydrawise/__init__.py and hydrawise/config_flow.py: YAML import,    *)
(*     entry migration and entry setup (specification SpecSetup);          *)
(*   - ambient_network/config_flow.py: the user, station and mnemonic      *)
(*     steps of the config flow (specification SpecAmbient);               *)
(*   - hydrawise/config_flow.py: the user, import and reauth flows next    *)
(*     to the setup of the entries (specification SpecFlow).               *)
(*                                                                         *)
(* Strings that the code inspects character by character are sequences of  *)
(* one-character strings.  Volumes in gallons are integers counting        *)
(* 1/GallonScale of a gallon, so that the unit conversion is exact.        *)
(***************************************************************************)
EXTENDS Integers, Sequences, FiniteSets, TLC

VARIABLES
    \* ambient_network: one call of ConfigFlow.create_mnemonic
    text,               \* the argument of create_mnemonic
    mnemonic,           \* the returned string (empty until the call returns)
    outcome,            \* "pending", then "returned" or the exception raised
    \* ambient_network: one config flow (ConfigFlow) and what surrounds it
    _latitude,          \* the fields of the flow
    _longitude,
    _radius,
    _mac_address,
    _name,
    _mnemonic,
    flow_unique_id,     \* the unique id of the flow, None until async_set_unique_id
    flow_result,        \* what the latest step returned: a form, an abort, an entry
    raised,             \* the exception that left the latest step, or None
    user_input,         \* the user_input of the latest step, None for a step entered without
    stations,           \* the latest answer of get_devices_by_location
    configured,         \* the unique ids of the ambient_network entries that exist
    \* hydrawise: the vendor cloud, as the API calls of one poll see it
    user,               \* api.get_user(): the controllers of the account
    unit,               \* the unit the vendor localizes its volumes to
    watering_report,    \* api.get_watering_report(controller, ...) by controller id
    water_flow_summary, \* api.get_water_flow_summary(controller, sensor, ...) by sensor id
    \* hydrawise: HydrawiseDataUpdateCoordinator
    pc,                 \* "idle", or "loop" while _async_update_data is running
    ci,                 \* index of the controller the outer for loop is at
    si,                 \* index of the sensor the inner for loop is at (0: before the zones)
    controllers,        \* the local dicts of the running _async_update_data
    zones,
    sensors,
    daily_water_use,
    last_call,          \* <<controller id, sensor id>> of the latest _async_update_daily_water_use
    data,               \* coordinator.data: the latest HydrawiseData, None before the first
    \* hydrawise: the config entry, hass.data, the issue registry and the flows
    yaml,               \* config.get(DOMAIN): the hydrawise section of the YAML, or None
    entries,            \* the config entries by entry id: version, data, unique id, state
    hass_data,          \* hass.data[DOMAIN]: the entry ids that hold a coordinator
    client_created,     \* the entry ids async_setup_entry built a client and coordinator for
    refreshed,          \* the entry ids whose first refresh got its answer from get_user
    forwarded,          \* the entry ids whose platforms were forwarded
    flows,              \* the config flows started, in order
    issues,             \* the issue registry: a set of [domain, issue_id, translation_key]
    setup_pc,           \* "start", and "done" once async_setup has returned
    reloaded            \* the entry ids a reauth flow has reloaded

vars == <<text, mnemonic, outcome,
          _latitude, _longitude, _radius, _mac_address, _name, _mnemonic, flow_unique_id,
          flow_result, raised, user_input, stations, configured,
          user, unit, watering_report, water_flow_summary,
          pc, ci, si, controllers, zones, sensors, daily_water_use, last_call, data,
          yaml, entries, hass_data, client_created, refreshed, forwarded, flows, issues,
          setup_pc, reloaded>>

mnemonicVars == <<text, mnemonic, outcome>>
flowFields ==
    <<_latitude, _longitude, _radius, _mac_address, _name, _mnemonic, flow_unique_id>>
ambientVars == <<flowFields, flow_result, raised, user_input, stations, configured>>
vendorVars == <<user, unit, watering_report, water_flow_summary>>
pollVars == <<pc, ci, si, controllers, zones, sensors, daily_water_use, last_call, data>>
setupVars == <<yaml, entries, hass_data, client_created, refreshed, forwarded, flows, issues,
               setup_pc>>

None == "None"

\* None where the other values are records or sequences
NoneObj == [none |-> TRUE]

Min(a, b) == IF a < b THEN a ELSE b

(***************************************************************************)
(* Characters.                                                             *)
(***************************************************************************)
LowerSeq == <<"a","b","c","d","e","f","g","h","i","j","k","l","m",
              "n","o","p","q","r","s","t","u","v","w","x","y","z">>
UpperSeq == <<"A","B","C","D","E","F","G","H","I","J","K","L","M",
              "N","O","P","Q","R","S","T","U","V","W","X","Y","Z">>
Lower == {LowerSeq[i] : i \in DOMAIN LowerSeq}
Upper == {UpperSeq[i] : i \in DOMAIN UpperSeq}
Digit == {"0","1","2","3","4","5","6","7","8","9"}
Hyphen == {"-"}
Whitespace == {" ", "\t", "\n"}

\* str.upper() on one character
char_upper(c) ==
    IF c \in Lower
    THEN UpperSeq[CHOOSE i \in DOMAIN LowerSeq : LowerSeq[i] = c]
    ELSE c

\* str.upper()
str_upper_lower(s) == s
str_upper(s) == [i \in DOMAIN s |-> char_upper(s[i])]

(***************************************************************************)
(* text.split(): the maximal runs of non-whitespace characters.            *)
(***************************************************************************)
RECURSIVE split_from(_, _, _)
split_from(s, i, word) ==
    IF i > Len(s)
    THEN IF word = <<>> THEN <<>> ELSE <<word>>
    ELSE IF s[i] \in Whitespace
         THEN IF word = <<>>
              THEN split_from(s, i + 1, <<>>)
              ELSE <<word>> \o split_from(s, i + 1, <<>>)
         ELSE split_from(s, i + 1, Append(word, s[i]))

str_split(s) == split_from(s, 1, <<>>)

(***************************************************************************)
(* The regular expressions of create_mnemonic.                             *)
(***************************************************************************)
\* the last index of the maximal run of characters of class starting at i
\* (i - 1 when s[i] is not of the class): a greedy "[class]*"
RECURSIVE run_end(_, _, _)
run_end(s, i, class) ==
    IF i <= Len(s) /\ s[i] \in class THEN run_end(s, i + 1, class) ELSE i - 1

\* one alternative "[first][rest]+" tried at index i: the end of its match, 0 for none
alternative(s, i, first, rest) ==
    IF i + 1 <= Len(s) /\ s[i] \in first /\ s[i + 1] \in rest
    THEN run_end(s, i + 1, rest)
    ELSE 0

\* r"[a-z][a-z0-9\-]+|[A-Z][a-z0-9\-]+|[A-Z][A-Z0-9\-]+" tried at index i:
\* the alternatives in order, the first that matches wins
pattern_at(s, i) ==
    LET a1 == alternative(s, i, Lower, Lower \cup Digit \cup Hyphen)
        a2 == alternative(s, i, Upper, Lower \cup Digit \cup Hyphen)
        a3 == alternative(s, i, Upper, Upper \cup Digit \cup Hyphen)
    IN  IF a1 # 0 THEN a1 ELSE IF a2 # 0 THEN a2 ELSE a3

\* re.findall(pattern, word): the non-overlapping matches, left to right
RECURSIVE findall_from(_, _)
findall_from(word, i) ==
    IF i > Len(word)
    THEN <<>>
    ELSE LET e == pattern_at(word, i)
         IN  IF e = 0
             THEN findall_from(word, i + 1)
             ELSE <<SubSeq(word, i, e)>> \o findall_from(word, e + 1)

re_findall(word) == findall_from(word, 1)

\* re.match(r"([a-zA-Z]+)[\-0-9]", part): whether it matches, and group 1
re_match_never(part) == [matched |-> FALSE, group1 |-> <<>>]
re_match(part) ==
    LET e == run_end(part, 1, Lower \cup Upper)
    IN  IF e >= 1 /\ e + 1 <= Len(part) /\ part[e + 1] \in (Hyphen \cup Digit)
        THEN [matched |-> TRUE, group1 |-> SubSeq(part, 1, e)]
        ELSE [matched |-> FALSE, group1 |-> <<>>]

(***************************************************************************)
(* ConfigFlow.create_mnemonic.  A result is [exc, value]: exc is None and  *)
(* value the string, or exc names the exception raised.                    *)
(***************************************************************************)
Returned(v) == [exc |-> None, value |-> v]
Raised(e) == [exc |-> e, value |-> <<>>]

\* the body of "for part in parts": what one part adds to the mnemonic
part_letters(part) ==
    LET match == re_match(part)
    IN  IF match.matched
        THEN Returned(str_upper(match.group1))
        ELSE IF part = <<>>
             THEN Raised("IndexError")
             ELSE Returned(str_upper(<<part[1]>>))

\* "for part in parts": the letters of one word
RECURSIVE parts_letters(_)
parts_letters(parts) ==
    IF parts = <<>>
    THEN Returned(<<>>)
    ELSE LET head == part_letters(parts[1])
             tail == parts_letters(Tail(parts))
         IN  IF head.exc # None THEN head
             ELSE IF tail.exc # None THEN tail
             ELSE Returned(head.value \o tail.value)

\* "for word in words": the mnemonic before truncation
RECURSIVE words_letters(_)
words_letters(words) ==
    IF words = <<>>
    THEN Returned(<<>>)
    ELSE LET head == parts_letters(re_findall(words[1]))
             tail == words_letters(Tail(words))
         IN  IF head.exc # None THEN head
             ELSE IF tail.exc # None THEN tail
             ELSE Returned(head.value \o tail.value)

\* mnemonic[:4]
truncate_padded(s) == [i \in 1..4 |-> IF i <= Len(s) THEN s[i] ELSE "X"]
truncate(s) == SubSeq(s, 1, Min(4, Len(s)))

create_mnemonic(t) ==
    LET letters == words_letters(str_split(t))
    IN  IF letters.exc # None THEN letters ELSE Returned(truncate(letters.value))

(***************************************************************************)
(* The names create_mnemonic is called with: every string of at most       *)
(* MaxLen characters over Alphabet, and the names the documentation cites. *)
(***************************************************************************)
MaxLen == 4

Alphabet == {"a", "A", "B", "7", "-", " ", "!"}

RECURSIVE Strings(_)
Strings(n) ==
    IF n = 0
    THEN {<<>>}
    ELSE LET shorter == Strings(n - 1)
         IN  shorter \cup {Append(s, c) : s \in {x \in shorter : Len(x) = n - 1}, c \in Alphabet}

MountainView == <<"M","o","u","n","t","a","i","n","-","V","i","e","w">>
FortCollins == <<"F","o","r","t"," ","C","o","l","l","i","n","s">>
FortCollinsCOWeather == FortCollins \o <<" ","C","O","-","W","e","a","t","h","e","r">>
ABCD == <<"A"," ","B"," ","C"," ","D">>

Names == Strings(MaxLen) \cup {MountainView, FortCollins, FortCollinsCOWeather, ABCD}

(***************************************************************************)
(* SpecMnemonic: create_mnemonic is called once with a name drawn from     *)
(* Names.                                                                  *)
(***************************************************************************)
CallCreateMnemonic ==
    /\ outcome = "pending"
    /\ LET result == create_mnemonic(text)
       IN  /\ outcome' = IF result.exc = None THEN "returned" ELSE result.exc
           /\ mnemonic' = result.value
    /\ UNCHANGED <<text, vendorVars, pollVars, setupVars, ambientVars, reloaded>>

(***************************************************************************)
(* ambient_network: the config flow.  A flow result is a record with a     *)
(* type: "none" before the flow's first step, "form" (step_id, and the     *)
(* options or the default of its schema), "abort" (reason) or              *)
(* "create_entry" (title, data).                                           *)
(***************************************************************************)
CONFIG_STEP_USER == "user"
CONFIG_STEP_STATION == "station"
CONFIG_STEP_MNEMONIC == "mnemonic"

\* METERS_TO_MILES = 0.000621, counted in millionths
METERS_TO_MILES == 621

Comma == <<",">>

\* ConfigFlow.__init__
InitialMacAddress ==
    <<"0","0",":","0","0",":","0","0",":","0","0",":","0","0",":","0","0",":","0","0",":","0","0">>
InitialName == <<"U","n","k","n","o","w","n">>
InitialMnemonic == <<"U","K","N","W">>

NoResult == [type |-> "none"]
UserForm == [type |-> "form", step_id |-> CONFIG_STEP_USER]
StationForm(options) == [type |-> "form", step_id |-> CONFIG_STEP_STATION, options |-> options]
MnemonicForm(default) ==
    [type |-> "form", step_id |-> CONFIG_STEP_MNEMONIC, default |-> default]
Abort(reason) == [type |-> "abort", reason |-> reason]
CreateEntry(title, d) == [type |-> "create_entry", title |-> title, data |-> d]

\* the flow shows the form of the step
AtForm(step_id) == flow_result.type = "form" /\ flow_result.step_id = step_id

\* str.split(","): the fields between the commas, empty ones included
RECURSIVE split_comma_from(_, _, _)
split_comma_from(s, i, field) ==
    IF i > Len(s)
    THEN <<field>>
    ELSE IF s[i] = Comma[1]
         THEN <<field>> \o split_comma_from(s, i + 1, <<>>)
         ELSE split_comma_from(s, i + 1, Append(field, s[i]))

str_split_comma(s) == split_comma_from(s, 1, <<>>)

\* f"{station[API_STATION_MAC_ADDRESS]},{mnemonic},{name}"
option_value(mac, mnem, name) == mac \o Comma \o mnem \o Comma \o name

\* f"{name} ({mnemonic})", the label of an option and the title of the entry
option_label(name, mnem) == name \o <<" ", "(">> \o mnem \o <<")">>

\* "for station in stations": the options of the station form
station_options(sts) ==
    [i \in DOMAIN sts |->
        LET name == sts[i].info.name
            mnem == create_mnemonic(name).value
        IN  [label |-> option_label(name, mnem),
             value |-> option_value(sts[i].macAddress, mnem, name)]]

\* "if len(stations) == 0"
no_stations_found_never(sts) == FALSE
no_stations_found(sts) == Len(sts) = 0

\* async_step_station() entered without user_input, given the answer of
\* get_devices_by_location: the result it returns
async_step_station_form(sts) ==
    IF no_stations_found(sts)
    THEN Abort("no_stations_found")
    ELSE StationForm(station_options(sts))

(***************************************************************************)
(* The stations the location lookup answers with, and what the user        *)
(* submits.                                                                *)
(***************************************************************************)
MaxNameLen == 2

StationAlphabet == {"a", "B", ",", " "}

RECURSIVE StationStrings(_)
StationStrings(n) ==
    IF n = 0
    THEN {<<>>}
    ELSE LET shorter == StationStrings(n - 1)
         IN  shorter \cup {Append(s, c) : s \in {x \in shorter : Len(x) = n - 1},
                                          c \in StationAlphabet}

StationNames == StationStrings(MaxNameLen) \cup {MountainView}

FirstMac == <<"0","0",":","1","A">>
SecondMac == <<"0","0",":","2","B">>

Station(mac, name) == [macAddress |-> mac, info |-> [name |-> name]]

\* the answers of get_devices_by_location: no station, one station, or a station
\* with each of the two MAC addresses; or the exception the call raises
LookupAnswers ==
    {[exc |-> None, stations |-> <<>>]}
    \cup {[exc |-> None, stations |-> <<Station(m, n)>>] :
              m \in {FirstMac, SecondMac}, n \in StationNames}
    \cup {[exc |-> None, stations |-> <<Station(FirstMac, n), Station(SecondMac, m)>>] :
              n \in StationNames, m \in StationNames}
    \cup {[exc |-> "ClientError", stations |-> <<>>]}

Locations == {[latitude |-> 40, longitude |-> -105, radius |-> 1000]}

\* the mnemonics the user submits: the default of the form, or an own one
OwnMnemonic == <<"X","Y","Z","1">>

(***************************************************************************)
(* SpecAmbient: one config flow, from its start to its end.                *)
(***************************************************************************)
\* the flow manager starts the flow: async_step_user(None)
AmbientUserForm ==
    /\ flow_result = NoResult
    /\ user_input' = NoneObj
    /\ raised' = None
    /\ flow_result' = UserForm
    /\ UNCHANGED <<flowFields, stations, configured,
                   mnemonicVars, vendorVars, pollVars, setupVars, reloaded>>

\* async_step_user(user_input): the location is kept and async_step_station() looks
\* the stations up; an exception of the lookup leaves the step
AmbientUserStep ==
    \E location \in Locations, answer \in LookupAnswers :
        /\ AtForm(CONFIG_STEP_USER)
        /\ user_input' = [location |-> location]
        /\ _latitude' = location.latitude
        /\ _longitude' = location.longitude
        /\ _radius' = location.radius * METERS_TO_MILES
        /\ raised' = answer.exc
        /\ IF answer.exc # None
           THEN UNCHANGED <<stations, flow_result>>
           ELSE /\ stations' = answer.stations
                /\ flow_result' = async_step_station_form(answer.stations)
        /\ UNCHANGED <<_mac_address, _name, _mnemonic, flow_unique_id, configured,
                       mnemonicVars, vendorVars, pollVars, setupVars, reloaded>>

\* async_step_station(user_input) with an option of the form: the option value is
\* split into the three fields (ValueError unless it has three parts), the MAC
\* address becomes the unique id, the flow aborts when an entry has that unique id,
\* and async_step_mnemonic() shows the mnemonic form
AmbientStationStep ==
    /\ AtForm(CONFIG_STEP_STATION)
    /\ \E o \in DOMAIN flow_result.options :
        /\ user_input' = [station |-> flow_result.options[o].value]
        /\ LET parts == str_split_comma(flow_result.options[o].value)
           IN  IF Len(parts) # 3
               THEN /\ raised' = "ValueError"
                    /\ UNCHANGED <<_mac_address, _mnemonic, _name, flow_unique_id,
                                   flow_result>>
               ELSE /\ raised' = None
                    /\ _mac_address' = parts[1]
                    /\ _mnemonic' = parts[2]
                    /\ _name' = parts[3]
                    /\ flow_unique_id' = <<parts[1]>>
                    /\ flow_result' = IF parts[1] \in configured
                                      THEN Abort("already_configured")
                                      ELSE MnemonicForm(parts[2])
        /\ UNCHANGED <<_latitude, _longitude, _radius, stations, configured,
                       mnemonicVars, vendorVars, pollVars, setupVars, reloaded>>

\* async_step_mnemonic(user_input): the entry is created with the mnemonic
\* submitted; the flow manager adds it with the unique id of the flow
AmbientMnemonicStep ==
    /\ AtForm(CONFIG_STEP_MNEMONIC)
    /\ \E m \in {flow_result.default, OwnMnemonic} :
        /\ user_input' = [mnemonic |-> m]
        /\ raised' = None
        /\ flow_result' = CreateEntry(option_label(_name, m),
                                      [name |-> _name, mac_address |-> _mac_address,
                                       mnemonic |-> m])
        /\ configured' = configured \cup {flow_unique_id[1]}
        /\ UNCHANGED <<flowFields, stations,
                       mnemonicVars, vendorVars, pollVars, setupVars, reloaded>>

(***************************************************************************)
(* Hydrawise: the objects of pydrawise.schema.  NoneObj is Python's None   *)
(* where the other values are objects.                                     *)
(***************************************************************************)
char_lower(c) ==
    IF c \in Upper
    THEN LowerSeq[CHOOSE i \in DOMAIN UpperSeq : UpperSeq[i] = c]
    ELSE c

\* str.lower()
str_lower(s) == [i \in DOMAIN s |-> char_lower(s[i])]

\* sub in s
str_contains(sub, s) ==
    \E i \in 1..(Len(s) - Len(sub) + 1) : SubSeq(s, i, i + Len(sub) - 1) = sub

flow_meter == <<"f","l","o","w"," ","m","e","t","e","r">>

\* the sensor models of the accounts drawn
FlowMeterModel == <<"H","C"," ","F","l","o","w"," ","M","e","t","e","r">>
RainSensorModel == <<"R","a","i","n"," ","S","e","n","s","o","r">>

Zone(id) == [id |-> id]
Sensor(id, name) == [id |-> id, model |-> [name |-> name]]
Controller(id, zs, ss) == [id |-> id, zones |-> zs, sensors |-> ss]
LocalizedValueType(value, u) == [value |-> value, unit |-> u]

\* UnitOfVolume: the units the vendor localizes to
GALLONS == "gal"
FLUID_OUNCES == "fl. oz."
Units == {GALLONS, FLUID_OUNCES}

\* gallons are counted in 1/GallonScale of a gallon: a fluid ounce is 1/128 gallon
GallonScale == 128

\* VolumeConverter.convert(value, from_unit, UnitOfVolume.GALLONS)
VolumeConverter_convert(value, from_unit) ==
    IF from_unit = GALLONS THEN value * GallonScale ELSE value

(***************************************************************************)
(* HydrawiseDataUpdateCoordinator.                                         *)
(***************************************************************************)
DailyWaterUse(active, non_active) == [active |-> active, non_active |-> non_active]

HydrawiseData(u, cs, zs, ss, dwu) ==
    [user |-> u, controllers |-> cs, zones |-> zs, sensors |-> ss, daily_water_use |-> dwu]

\* d[k] = v on a dict
dict_set(d, k, v) == [x \in (DOMAIN d) \cup {k} |-> IF x = k THEN v ELSE d[x]]

\* d.setdefault(k, v)
dict_setdefault(d, k, v) == IF k \in DOMAIN d THEN d ELSE dict_set(d, k, v)

_to_gallons(value) == VolumeConverter_convert(value.value, value.unit)

\* the condition of the if statement in the loop over the watering report
has_reported_use(e) ==
    /\ e.run_event # NoneObj
    /\ e.run_event.zone # NoneObj
    /\ e.run_event.reported_water_usage # NoneObj

\* "for entry in watering_report": [total_active_use, daily_water_use] after the
\* entries from index i on
RECURSIVE report_loop(_, _, _, _)
report_loop(report, i, total_active_use, dwu) ==
    IF i > Len(report)
    THEN [total_active_use |-> total_active_use, daily_water_use |-> dwu]
    ELSE LET e == report[i]
         IN  IF has_reported_use(e)
             THEN LET active_use == _to_gallons(e.run_event.reported_water_usage)
                      zid == e.run_event.zone.id
                      d1 == dict_setdefault(dwu, zid, DailyWaterUse(0, 0))
                      d2 == dict_set(d1, zid,
                                     DailyWaterUse(d1[zid].active + active_use,
                                                   d1[zid].non_active))
                  IN  report_loop(report, i + 1, total_active_use + active_use, d2)
             ELSE report_loop(report, i + 1, total_active_use, dwu)

\* the DailyWaterUse written for the controller
controller_use_swapped(total_use, total_active_use) ==
    DailyWaterUse(IF total_use < total_active_use THEN total_use ELSE total_active_use,
                  IF total_use > total_active_use THEN total_use - total_active_use ELSE 0)
controller_use(total_use, total_active_use) ==
    DailyWaterUse(IF total_use > total_active_use THEN total_use ELSE total_active_use,
                  IF total_use > total_active_use THEN total_use - total_active_use ELSE 0)

\* _async_update_daily_water_use(controller, sensor, daily_water_use) given the
\* two API answers: the dict it leaves
_async_update_daily_water_use(controller, sensor, dwu, report, summary) ==
    LET looped == report_loop(report, 1, 0, dwu)
        total_use == _to_gallons(summary.total_water_volume)
    IN  dict_set(looped.daily_water_use, controller.id,
                 controller_use(total_use, looped.total_active_use))

\* daily_water_use: dict[int, DailyWaterUse] = {} at the start of _async_update_data
fresh_daily_water_use_kept(previous) ==
    IF previous = NoneObj THEN <<>> ELSE previous.daily_water_use
fresh_daily_water_use(previous) == <<>>

(***************************************************************************)
(* The vendor data the polls read.  An account (its controllers, zones and *)
(* sensors) and the unit of its volumes are drawn at the start and stay;   *)
(* the day's watering reports and flow totals change between polls.        *)
(***************************************************************************)
MaxVolume == 1      \* the largest reported usage of one watering event
MaxFlow == 2        \* the largest flow total of one sensor

\* one flow meter and two zones
AccountOneMeter ==
    <<Controller(1, <<Zone(10), Zone(11)>>, <<Sensor(20, FlowMeterModel)>>)>>
\* two flow meters on one controller
AccountTwoMeters ==
    <<Controller(1, <<Zone(10)>>, <<Sensor(20, FlowMeterModel), Sensor(21, FlowMeterModel)>>)>>
\* a zone whose id is the id of its controller, a rain sensor before the flow meter
AccountSharedId ==
    <<Controller(1, <<Zone(1)>>, <<Sensor(22, RainSensorModel), Sensor(20, FlowMeterModel)>>)>>
\* a controller without flow meter before one with a flow meter
AccountTwoControllers ==
    <<Controller(1, <<Zone(10)>>, <<Sensor(22, RainSensorModel)>>),
      Controller(2, <<Zone(11)>>, <<Sensor(20, FlowMeterModel)>>)>>

Accounts == {AccountOneMeter, AccountTwoMeters, AccountSharedId, AccountTwoControllers}

is_flow_meter(sensor) == str_contains(flow_meter, str_lower(sensor.model.name))

FlowControllers(u) ==
    {i \in DOMAIN u : \E j \in DOMAIN u[i].sensors : is_flow_meter(u[i].sensors[j])}
FlowSensorIds(u) ==
    UNION {{u[i].sensors[j].id : j \in {k \in DOMAIN u[i].sensors : is_flow_meter(u[i].sensors[k])}} :
              i \in DOMAIN u}
ControllerIds(u) == {u[i].id : i \in DOMAIN u}

\* watering report entries
NoRunEvent == [run_event |-> NoneObj]
NoZone(v, u) ==
    [run_event |-> [zone |-> NoneObj, reported_water_usage |-> LocalizedValueType(v, u)]]
NoUsage(z) == [run_event |-> [zone |-> Zone(z), reported_water_usage |-> NoneObj]]
Use(z, v, u) ==
    [run_event |-> [zone |-> Zone(z), reported_water_usage |-> LocalizedValueType(v, u)]]

\* the reports drawn for a controller with zones zs: none, one of entries that all
\* lack a run event, a zone or a usage, one event, and two events around such an entry
Reports(zs, u) ==
    LET first == zs[1].id
        last == zs[Len(zs)].id
    IN  {<<>>, <<NoRunEvent, NoZone(MaxVolume, u), NoUsage(first)>>}
        \cup {<<Use(first, v, u)>> : v \in 0..MaxVolume}
        \cup {<<Use(first, v, u), NoUsage(last), Use(last, w, u)>> :
                v \in 1..MaxVolume, w \in 1..MaxVolume}

\* the watering reports of an account: one per controller with a flow meter
\* (the report of a controller without one is never fetched)
WateringReports(u, un) ==
    {r \in [ControllerIds(u) -> UNION {Reports(u[i].zones, un) : i \in DOMAIN u}] :
        \A i \in DOMAIN u :
            IF i \in FlowControllers(u)
            THEN r[u[i].id] \in Reports(u[i].zones, un)
            ELSE r[u[i].id] = <<>>}

Summary(v, u) == [total_water_volume |-> LocalizedValueType(v, u)]

WaterFlowSummaries(u, un) ==
    [FlowSensorIds(u) -> {Summary(v, un) : v \in 0..MaxFlow}]

(***************************************************************************)
(* SpecPoll: the coordinator's refreshes.                                  *)
(***************************************************************************)
\* the position of the loops after the sensor at index j of the controller at index i
NextPosition(u, i, j) ==
    IF j < Len(u[i].sensors) THEN <<i, j + 1>> ELSE <<i + 1, 0>>

\* _async_update_data up to the loops: get_user answered
UpdateDataStart ==
    /\ pc = "idle"
    /\ pc' = "loop"
    /\ ci' = 1
    /\ si' = 0
    /\ controllers' = <<>>
    /\ zones' = <<>>
    /\ sensors' = <<>>
    /\ daily_water_use' = fresh_daily_water_use(data)
    /\ last_call' = <<>>
    /\ UNCHANGED <<data, vendorVars, mnemonicVars, setupVars, ambientVars, reloaded>>

\* "for controller in user.controllers": the controller and its zones
zones_loop(zs, d) ==
    [x \in (DOMAIN d) \cup {zs[k].id : k \in DOMAIN zs} |->
        IF \E k \in DOMAIN zs : zs[k].id = x
        THEN zs[CHOOSE k \in DOMAIN zs :
                    zs[k].id = x /\ \A m \in DOMAIN zs : zs[m].id = x => m <= k]
        ELSE d[x]]

UpdateDataController ==
    /\ pc = "loop"
    /\ ci <= Len(user)
    /\ si = 0
    /\ controllers' = dict_set(controllers, user[ci].id, user[ci])
    /\ zones' = zones_loop(user[ci].zones, zones)
    /\ LET next == NextPosition(user, ci, 0)
       IN  ci' = next[1] /\ si' = next[2]
    /\ last_call' = <<>>
    /\ UNCHANGED <<pc, sensors, daily_water_use, data, vendorVars, mnemonicVars, setupVars, ambientVars, reloaded>>

\* "for sensor in controller.sensors": one sensor, with the call of
\* _async_update_daily_water_use when it is a flow meter
UpdateDataSensor ==
    /\ pc = "loop"
    /\ ci <= Len(user)
    /\ si >= 1
    /\ LET controller == user[ci]
           sensor == controller.sensors[si]
           next == NextPosition(user, ci, si)
       IN  /\ sensors' = dict_set(sensors, sensor.id, sensor)
           /\ IF is_flow_meter(sensor)
              THEN /\ daily_water_use' =
                        _async_update_daily_water_use(
                            controller, sensor, daily_water_use,
                            watering_report[controller.id], water_flow_summary[sensor.id])
                   /\ last_call' = <<controller.id, sensor.id>>
              ELSE /\ daily_water_use' = daily_water_use
                   /\ last_call' = <<>>
           /\ ci' = next[1]
           /\ si' = next[2]
    /\ UNCHANGED <<pc, controllers, zones, data, vendorVars, mnemonicVars, setupVars, ambientVars, reloaded>>

\* return HydrawiseData(...): the coordinator stores it as its data, the locals end
UpdateDataReturn ==
    /\ pc = "loop"
    /\ ci > Len(user)
    /\ data' = HydrawiseData(user, controllers, zones, sensors, daily_water_use)
    /\ pc' = "idle"
    /\ ci' = 0
    /\ si' = 0
    /\ controllers' = <<>>
    /\ zones' = <<>>
    /\ sensors' = <<>>
    /\ daily_water_use' = <<>>
    /\ last_call' = <<>>
    /\ UNCHANGED <<vendorVars, mnemonicVars, setupVars, ambientVars, reloaded>>

\* an API call raises (get_user, or get_watering_report / get_water_flow_summary at
\* a flow meter): the exception leaves _async_update_data, whose locals end; the
\* coordinator keeps its data
AtApiCall ==
    IF pc = "idle"
    THEN TRUE
    ELSE ci <= Len(user) /\ si >= 1 /\ is_flow_meter(user[ci].sensors[si])

UpdateDataRaise ==
    /\ AtApiCall
    /\ pc' = "idle"
    /\ ci' = 0
    /\ si' = 0
    /\ controllers' = <<>>
    /\ zones' = <<>>
    /\ sensors' = <<>>
    /\ daily_water_use' = <<>>
    /\ last_call' = <<>>
    /\ UNCHANGED <<data, vendorVars, mnemonicVars, setupVars, ambientVars, reloaded>>

\* between two polls the vendor has new reports and flow totals
VendorChange ==
    /\ pc = "idle"
    /\ watering_report' \in WateringReports(user, unit)
    /\ water_flow_summary' \in WaterFlowSummaries(user, unit)
    /\ UNCHANGED <<user, unit, pollVars, mnemonicVars, setupVars, ambientVars, reloaded>>

(***************************************************************************)
(* Hydrawise: config entries.  An entry is [version, data, unique_id,      *)
(* state, pc, migrated]: data maps keys to strings, state is the           *)
(* ConfigEntryState, pc the position of the entry's setup, and migrated    *)
(* records that async_migrate_entry took the entry from version 1.         *)
(***************************************************************************)
HYDRAWISE_DOMAIN == "hydrawise"
HOMEASSISTANT_DOMAIN == "homeassistant"
CONF_ACCESS_TOKEN == "access_token"
CONF_API_KEY == "api_key"
CONF_USERNAME == "username"
CONF_PASSWORD == "password"
SOURCE_IMPORT == "import"
SOURCE_REAUTH == "reauth"
SOURCE_USER == "user"

\* HydrawiseConfigFlow.VERSION
VERSION == 1

\* d.pop(k, None) and d | e on the data of an entry
data_pop(d, k) == [x \in (DOMAIN d) \ {k} |-> d[x]]
data_merge(d, e) ==
    [x \in (DOMAIN d) \cup (DOMAIN e) |-> IF x \in DOMAIN e THEN e[x] ELSE d[x]]

ConfigEntry(version, d, unique_id) ==
    [version |-> version, data |-> d, unique_id |-> unique_id,
     state |-> "NOT_LOADED", pc |-> "idle", migrated |-> FALSE]

\* a flow: its context (source, entry_id), the data it was started with (api_key),
\* the reauth_entry and unique id it holds (0 and "" for None), what the latest
\* api.get_user() of the flow raised ("" before the first call, None when it
\* returned), and its latest result: "pending" before its first step, "form" with
\* the errors of the form, "abort" with the reason, or "create_entry"
Flow(source, api_key, entry_id) ==
    [source |-> source, api_key |-> api_key, entry_id |-> entry_id,
     reauth_entry |-> 0, unique_id |-> "", get_user |-> "",
     result |-> "pending", reason |-> "", errors |-> <<>>]

Issue(domain, issue_id, translation_key) ==
    [domain |-> domain, issue_id |-> issue_id, translation_key |-> translation_key]

(***************************************************************************)
(* hydrawise/__init__.py.                                                  *)
(***************************************************************************)
\* async_setup: the flows after it
async_setup(config, fl) ==
    IF config = NoneObj
    THEN fl
    ELSE Append(fl, Flow(SOURCE_IMPORT, config[CONF_ACCESS_TOKEN], 0))

\* async_migrate_entry: the version and data it leaves
async_migrate_entry_keeps_key(config_entry) ==
    IF config_entry.version = 1
    THEN [config_entry EXCEPT
            !.version = 2,
            !.data = data_merge(config_entry.data,
                                [username |-> "", password |-> ""])]
    ELSE config_entry
async_migrate_entry(config_entry) ==
    IF config_entry.version = 1
    THEN [config_entry EXCEPT
            !.version = 2,
            !.data = data_merge(data_pop(config_entry.data, CONF_API_KEY),
                                [username |-> "", password |-> ""])]
    ELSE config_entry

\* async_setup_entry, the if statement: the exception it raises, or None
setup_entry_check(d) ==
    IF CONF_USERNAME \notin DOMAIN d THEN "KeyError"
    ELSE IF d[CONF_USERNAME] = "" THEN "ConfigEntryAuthFailed"
    ELSE IF CONF_PASSWORD \notin DOMAIN d THEN "KeyError"
    ELSE IF d[CONF_PASSWORD] = "" THEN "ConfigEntryAuthFailed"
    ELSE None

\* async_setup_entry from the first refresh to the store: hass.data[DOMAIN] after
\* "await coordinator.async_config_entry_first_refresh()" raised or returned
hass_data_after_refresh_stored_first(hd, entry_id, refresh_raised) == hd \cup {entry_id}
hass_data_after_refresh(hd, entry_id, refresh_raised) ==
    IF refresh_raised THEN hd ELSE hd \cup {entry_id}

\* async_unload_entry: hass.data[DOMAIN] after it
async_unload_entry(hd, entry_id, unload_ok) ==
    IF unload_ok THEN hd \ {entry_id} ELSE hd

\* _async_update_data raises what its first failing API call raises
ApiExceptions == {"NotAuthorizedError", "TimeoutError", "ClientError"}
_async_update_data_raises(api_exc) == api_exc # None

(***************************************************************************)
(* hydrawise/config_flow.py: the YAML import.                              *)
(***************************************************************************)
CustomerIds == {"1111", "2222"}

\* api.get_user(): what it raises, and the customer id of the user it returns
GetUserAnswers ==
    {[exc |-> None, customer_id |-> c] : c \in CustomerIds}
    \cup {[exc |-> e, customer_id |-> ""] : e \in ApiExceptions}

\* a flow result with the issue registry the step leaves; type "AbortFlow" is the
\* exception AbortFlow(reason) leaving the step
FlowResult(type, reason, d, unique_id, iss) ==
    [type |-> type, reason |-> reason, data |-> d, unique_id |-> unique_id, issues |-> iss]

\* _import_issue(error_type)
_import_issue(error_type, iss) ==
    FlowResult("abort", error_type, <<>>, "",
               iss \cup {Issue(HYDRAWISE_DOMAIN,
                               "deprecated_yaml_import_issue_" \o error_type,
                               "deprecated_yaml_import_issue")})

\* _deprecated_yaml_issue(): the issue registry after it
_deprecated_yaml_issue_skipped(iss) == iss
_deprecated_yaml_issue(iss) ==
    iss \cup {Issue(HOMEASSISTANT_DOMAIN, "deprecated_yaml_" \o HYDRAWISE_DOMAIN,
                    "deprecated_yaml")}

\* the except clauses of _create_or_update_entry
error_type_exchanged(exc) ==
    IF exc = "NotAuthorizedError" THEN "invalid_auth"
    ELSE IF exc = "TimeoutError" THEN "cannot_connect"
    ELSE "timeout_connect"
error_type(exc) ==
    IF exc = "NotAuthorizedError" THEN "invalid_auth"
    ELSE IF exc = "TimeoutError" THEN "timeout_connect"
    ELSE "cannot_connect"

\* _abort_if_unique_id_configured()
unique_id_configured(ents, unique_id) ==
    \E e \in DOMAIN ents : ents[e].unique_id = unique_id

\* self.reauth_entry.data | {CONF_USERNAME: username, CONF_PASSWORD: password}
reauth_data_replaced(d, username, password) ==
    [username |-> username, password |-> password]
reauth_data(d, username, password) ==
    data_merge(d, [username |-> username, password |-> password])

\* _show_form(error_type): the user form, with errors["base"] when error_type is
\* not None
_show_form(error, iss) ==
    [type |-> "form", step_id |-> "user",
     errors |-> IF error = None THEN <<>> ELSE [base |-> error],
     reason |-> "", data |-> <<>>, unique_id |-> "", issues |-> iss]

\* on_failure(error_type) for the two callbacks the steps pass
on_failure_call(on_failure, error, iss) ==
    IF on_failure = "_import_issue" THEN _import_issue(error, iss) ELSE _show_form(error, iss)

\* _create_or_update_entry(api_key, username, password, on_failure=...) of a flow
\* with the given reauth_entry (0 for None), given the answer of api.get_user(); the
\* result "reauth_successful" carries the data the entry is updated with
_create_or_update_entry(api_key, username, password, on_failure, reauth_entry, answer, ents, iss) ==
    IF answer.exc # None
    THEN on_failure_call(on_failure, error_type(answer.exc), iss)
    ELSE LET unique_id == "hydrawise-" \o answer.customer_id
         IN  IF reauth_entry = 0
             THEN IF unique_id_configured(ents, unique_id)
                  THEN FlowResult("AbortFlow", "already_configured", <<>>, unique_id, iss)
                  ELSE FlowResult("create_entry", "",
                                  IF api_key # ""
                                  THEN [api_key |-> api_key]
                                  ELSE [username |-> username, password |-> password],
                                  unique_id, iss)
             ELSE FlowResult("abort", "reauth_successful",
                             reauth_data(ents[reauth_entry].data, username, password),
                             unique_id, iss)

\* async_step_user(user_input)
async_step_user(input, reauth_entry, answer, ents, iss) ==
    IF input # NoneObj
    THEN _create_or_update_entry("", input.username, input.password, "_show_form",
                                 reauth_entry, answer, ents, iss)
    ELSE _show_form(None, iss)

\* async_step_import(import_data)
async_step_import(import_data, answer, ents, iss) ==
    LET result == _create_or_update_entry(
                      IF CONF_API_KEY \in DOMAIN import_data
                      THEN import_data[CONF_API_KEY] ELSE "",
                      None, None, "_import_issue", 0, answer, ents, iss)
    IN  IF result.type = "AbortFlow"
        THEN [result EXCEPT !.issues = _deprecated_yaml_issue(result.issues)]
        ELSE IF result.type = "create_entry"
             THEN [result EXCEPT !.issues = _deprecated_yaml_issue(result.issues)]
             ELSE result

(***************************************************************************)
(* SpecSetup: Home Assistant starts with a YAML configuration and at most  *)
(* one config entry; the config entries manager sets the entries up.       *)
(***************************************************************************)
\* async_setup_component: async_setup of the integration
ComponentSetup ==
    /\ setup_pc = "start"
    /\ flows' = async_setup(yaml, flows)
    /\ setup_pc' = "done"
    /\ UNCHANGED <<yaml, entries, hass_data, client_created, refreshed, forwarded, issues,
                   vendorVars, pollVars, mnemonicVars, ambientVars, reloaded>>

\* the flow manager runs the import step of a flow async_setup started; the entry
\* a flow creates is added to the config entries
ImportStep ==
    \E f \in DOMAIN flows, answer \in GetUserAnswers :
        /\ flows[f].source = SOURCE_IMPORT
        /\ flows[f].result = "pending"
        /\ LET result == async_step_import([api_key |-> flows[f].api_key],
                                           answer, entries, issues)
           IN  /\ issues' = result.issues
               /\ flows' = [flows EXCEPT
                              ![f].result = IF result.type = "AbortFlow"
                                            THEN "abort" ELSE result.type,
                              ![f].reason = result.reason,
                              ![f].unique_id = result.unique_id,
                              ![f].get_user = answer.exc]
               /\ entries' = IF result.type = "create_entry"
                             THEN Append(entries,
                                         ConfigEntry(VERSION, result.data, result.unique_id))
                             ELSE entries
        /\ UNCHANGED <<yaml, hass_data, client_created, refreshed, forwarded, setup_pc,
                       vendorVars, pollVars, mnemonicVars, ambientVars, reloaded>>

\* ConfigEntries.async_setup(entry_id), also as the retry after SETUP_RETRY
BeginSetup ==
    \E e \in DOMAIN entries :
        /\ setup_pc = "done"
        /\ entries[e].state \in {"NOT_LOADED", "SETUP_RETRY"}
        /\ entries' = [entries EXCEPT ![e].state = "SETUP_IN_PROGRESS", ![e].pc = "migrate"]
        /\ client_created' = client_created \ {e}
        /\ refreshed' = refreshed \ {e}
        /\ UNCHANGED <<yaml, hass_data, forwarded, flows, issues, setup_pc,
                       vendorVars, pollVars, mnemonicVars, ambientVars, reloaded>>

\* the migration step of the entry's setup: async_migrate_entry
MigrateEntry ==
    \E e \in DOMAIN entries :
        /\ entries[e].pc = "migrate"
        /\ entries' = [entries EXCEPT
                         ![e] = [async_migrate_entry(entries[e]) EXCEPT
                                   !.pc = "setup",
                                   !.migrated = entries[e].migrated
                                                \/ entries[e].version = 1]]
        /\ UNCHANGED <<yaml, hass_data, client_created, refreshed, forwarded, flows, issues,
                       setup_pc, vendorVars, pollVars, mnemonicVars, ambientVars, reloaded>>

\* entry.async_start_reauth(hass): a reauth flow, unless the entry has one in progress
async_start_reauth(fl, e) ==
    IF \E f \in DOMAIN fl :
          /\ fl[f].source = SOURCE_REAUTH
          /\ fl[f].entry_id = e
          /\ fl[f].result \in {"pending", "form"}
    THEN fl
    ELSE Append(fl, Flow(SOURCE_REAUTH, "", e))

\* async_setup_entry up to the first refresh: ConfigEntryAuthFailed makes the config
\* entries manager set SETUP_ERROR and start a reauth flow, another exception makes
\* it set SETUP_ERROR
SetupEntry ==
    \E e \in DOMAIN entries :
        /\ entries[e].pc = "setup"
        /\ LET exc == setup_entry_check(entries[e].data)
           IN  IF exc = None
               THEN /\ client_created' = client_created \cup {e}
                    /\ entries' = [entries EXCEPT ![e].pc = "refresh"]
                    /\ flows' = flows
               ELSE /\ client_created' = client_created
                    /\ entries' = [entries EXCEPT ![e].pc = "done",
                                                  ![e].state = "SETUP_ERROR"]
                    /\ flows' = IF exc = "ConfigEntryAuthFailed"
                                THEN async_start_reauth(flows, e)
                                ELSE flows
        /\ UNCHANGED <<yaml, hass_data, refreshed, forwarded, issues, setup_pc,
                       vendorVars, pollVars, mnemonicVars, ambientVars, reloaded>>

\* coordinator.async_config_entry_first_refresh() and the store that follows it: an
\* exception of _async_update_data becomes ConfigEntryNotReady, and the config
\* entries manager sets SETUP_RETRY
FirstRefresh ==
    \E e \in DOMAIN entries, api_exc \in ApiExceptions \cup {None} :
        /\ entries[e].pc = "refresh"
        /\ LET refresh_raised == _async_update_data_raises(api_exc)
           IN  /\ refreshed' = IF api_exc = None THEN refreshed \cup {e} ELSE refreshed
               /\ hass_data' = hass_data_after_refresh(hass_data, e, refresh_raised)
               /\ entries' = IF refresh_raised
                             THEN [entries EXCEPT ![e].pc = "done",
                                                  ![e].state = "SETUP_RETRY"]
                             ELSE [entries EXCEPT ![e].pc = "forward"]
        /\ UNCHANGED <<yaml, client_created, forwarded, flows, issues, setup_pc,
                       vendorVars, pollVars, mnemonicVars, ambientVars, reloaded>>

\* hass.config_entries.async_forward_entry_setups(config_entry, PLATFORMS), return True
ForwardEntrySetups ==
    \E e \in DOMAIN entries :
        /\ entries[e].pc = "forward"
        /\ forwarded' = forwarded \cup {e}
        /\ entries' = [entries EXCEPT ![e].pc = "done", ![e].state = "LOADED"]
        /\ UNCHANGED <<yaml, hass_data, client_created, refreshed, flows, issues, setup_pc,
                       vendorVars, pollVars, mnemonicVars, ambientVars, reloaded>>

\* ConfigEntries.async_unload(entry_id): async_unload_entry, with the answer of
\* async_unload_platforms
UnloadEntry ==
    \E e \in DOMAIN entries, unload_ok \in BOOLEAN :
        /\ entries[e].state = "LOADED"
        /\ hass_data' = async_unload_entry(hass_data, e, unload_ok)
        /\ forwarded' = IF unload_ok THEN forwarded \ {e} ELSE forwarded
        /\ entries' = [entries EXCEPT
                         ![e].state = IF unload_ok THEN "NOT_LOADED" ELSE "FAILED_UNLOAD",
                         ![e].pc = "idle"]
        /\ UNCHANGED <<yaml, client_created, refreshed, flows, issues, setup_pc,
                       vendorVars, pollVars, mnemonicVars, ambientVars, reloaded>>

(***************************************************************************)
(* hydrawise/config_flow.py: the user step and the reauth step.            *)
(***************************************************************************)
MaxUserFlows == 1       \* the flows a user starts

\* what the user submits in the user form
Credentials == {[username |-> "user2", password |-> "pass2"]}

\* no call of api.get_user()
NoAnswer == [exc |-> None, customer_id |-> ""]

\* a user starts a flow: async_step_user(None) shows the user form
UserFlowInit ==
    /\ setup_pc = "done"
    /\ Cardinality({f \in DOMAIN flows : flows[f].source = SOURCE_USER}) < MaxUserFlows
    /\ LET result == async_step_user(NoneObj, 0, NoAnswer, entries, issues)
       IN  flows' = Append(flows, [Flow(SOURCE_USER, "", 0) EXCEPT
                                      !.result = result.type,
                                      !.errors = result.errors])
    /\ UNCHANGED <<yaml, entries, hass_data, client_created, refreshed, forwarded, issues,
                   setup_pc, reloaded, vendorVars, pollVars, mnemonicVars, ambientVars>>

\* async_step_reauth of a reauth flow the entry's setup started: the entry of the
\* context becomes reauth_entry and async_step_user() shows the user form
ReauthStep ==
    \E f \in DOMAIN flows :
        /\ flows[f].source = SOURCE_REAUTH
        /\ flows[f].result = "pending"
        /\ LET reauth_entry == flows[f].entry_id
               result == async_step_user(NoneObj, reauth_entry, NoAnswer, entries, issues)
           IN  flows' = [flows EXCEPT ![f].reauth_entry = reauth_entry,
                                      ![f].result = result.type,
                                      ![f].errors = result.errors]
        /\ UNCHANGED <<yaml, entries, hass_data, client_created, refreshed, forwarded,
                       issues, setup_pc, reloaded,
                       vendorVars, pollVars, mnemonicVars, ambientVars>>

\* async_step_user(user_input) of a flow that shows the user form.  The flow
\* manager adds the entry of a create_entry result and ends the flow on AbortFlow;
\* async_reload of the reauth branch unloads the entry and leaves it to be set up
UserStep ==
    \E f \in DOMAIN flows, input \in Credentials, answer \in GetUserAnswers :
        /\ flows[f].result = "form"
        /\ LET result == async_step_user(input, flows[f].reauth_entry, answer,
                                         entries, issues)
               e == flows[f].reauth_entry
               updates == result.type = "abort" /\ result.reason = "reauth_successful"
           IN  /\ issues' = result.issues
               /\ flows' = IF result.type = "form"
                           THEN [flows EXCEPT ![f].errors = result.errors,
                                              ![f].get_user = answer.exc]
                           ELSE [flows EXCEPT
                                   ![f].get_user = answer.exc,
                                   ![f].result = IF result.type = "AbortFlow"
                                                 THEN "abort" ELSE result.type,
                                   ![f].reason = result.reason,
                                   ![f].unique_id = result.unique_id,
                                   ![f].errors = <<>>]
               /\ entries' =
                     IF result.type = "create_entry"
                     THEN Append(entries, ConfigEntry(VERSION, result.data, result.unique_id))
                     ELSE IF updates
                          THEN [entries EXCEPT ![e].data = result.data,
                                               ![e].state = "NOT_LOADED",
                                               ![e].pc = "idle"]
                          ELSE entries
               /\ reloaded' = IF updates THEN reloaded \cup {e} ELSE reloaded
               /\ hass_data' = IF updates THEN hass_data \ {e} ELSE hass_data
               /\ forwarded' = IF updates THEN forwarded \ {e} ELSE forwarded
        /\ UNCHANGED <<yaml, client_created, refreshed, setup_pc,
                       vendorVars, pollVars, mnemonicVars, ambientVars>>

\* the YAML configurations and the entries Home Assistant starts with
AccessTokens == {"", "_access-token_"}
YamlConfigs == {NoneObj} \cup {[access_token |-> t] : t \in AccessTokens}

InitialEntries ==
    {ConfigEntry(1, [api_key |-> "abc123"], "hydrawise-1111"),
     ConfigEntry(1, [username |-> "user", password |-> "pass"], "hydrawise-1111"),
     ConfigEntry(2, [username |-> "user", password |-> "pass"], "hydrawise-1111"),
     ConfigEntry(2, [username |-> "user", password |-> ""], "hydrawise-1111"),
     ConfigEntry(2, [username |-> "", password |-> ""], "hydrawise-1111")}

(***************************************************************************)
(* Initial states and specifications.                                      *)
(***************************************************************************)
MnemonicIdle == text = <<>> /\ mnemonic = <<>> /\ outcome = "pending"

PollIdle ==
    /\ pc = "idle"
    /\ ci = 0
    /\ si = 0
    /\ controllers = <<>>
    /\ zones = <<>>
    /\ sensors = <<>>
    /\ daily_water_use = <<>>
    /\ last_call = <<>>
    /\ data = NoneObj

VendorFixed ==
    /\ user = AccountOneMeter
    /\ unit = GALLONS
    /\ watering_report = [c \in ControllerIds(user) |-> <<>>]
    /\ water_flow_summary = [x \in FlowSensorIds(user) |-> Summary(0, unit)]

\* ConfigFlow.__init__, before the flow manager has run a step
AmbientFresh ==
    /\ _latitude = 0
    /\ _longitude = 0
    /\ _radius = 0
    /\ _mac_address = InitialMacAddress
    /\ _name = InitialName
    /\ _mnemonic = InitialMnemonic
    /\ flow_unique_id = <<>>
    /\ flow_result = NoResult
    /\ raised = None
    /\ user_input = NoneObj
    /\ stations = <<>>

AmbientIdle == AmbientFresh /\ configured = {}

SetupFresh ==
    /\ hass_data = {}
    /\ client_created = {}
    /\ refreshed = {}
    /\ forwarded = {}
    /\ flows = <<>>
    /\ issues = {}
    /\ setup_pc = "start"
    /\ reloaded = {}

SetupIdle == yaml = NoneObj /\ entries = <<>> /\ SetupFresh

InitMnemonic ==
    /\ text \in Names
    /\ mnemonic = <<>>
    /\ outcome = "pending"
    /\ VendorFixed
    /\ PollIdle
    /\ SetupIdle
    /\ AmbientIdle

NextMnemonic == CallCreateMnemonic

SpecMnemonic == InitMnemonic /\ [][NextMnemonic]_vars

InitPoll ==
    /\ user \in Accounts
    /\ unit \in Units
    /\ watering_report \in WateringReports(user, unit)
    /\ water_flow_summary \in WaterFlowSummaries(user, unit)
    /\ PollIdle
    /\ MnemonicIdle
    /\ SetupIdle
    /\ AmbientIdle

NextPoll ==
    \/ UpdateDataStart
    \/ UpdateDataController
    \/ UpdateDataSensor
    \/ UpdateDataReturn
    \/ UpdateDataRaise
    \/ VendorChange

SpecPoll == InitPoll /\ [][NextPoll]_vars

InitSetup ==
    /\ yaml \in YamlConfigs
    /\ entries \in {<<>>} \cup {<<e>> : e \in InitialEntries}
    /\ SetupFresh
    /\ VendorFixed
    /\ PollIdle
    /\ MnemonicIdle
    /\ AmbientIdle

NextSetup ==
    \/ ComponentSetup
    \/ ImportStep
    \/ BeginSetup
    \/ MigrateEntry
    \/ SetupEntry
    \/ FirstRefresh
    \/ ForwardEntrySetups
    \/ UnloadEntry

SpecSetup == InitSetup /\ [][NextSetup]_vars

\* SpecFlow: the config flows of hydrawise, with the part of the entries' setup
\* that starts the reauth flows (the first refresh of a setup is left unanswered)

\* an entry from storage whose data holds a further key
StoredEntry ==
    ConfigEntry(1, [api_key |-> "abc123", scan_interval |-> "120"], "hydrawise-1111")

\* an entry with a username and a password
LoadableEntry == ConfigEntry(2, [username |-> "user", password |-> "pass"], "hydrawise-1111")

InitFlow ==
    /\ yaml \in YamlConfigs
    /\ entries \in {<<>>, <<StoredEntry>>, <<LoadableEntry>>}
    /\ SetupFresh
    /\ VendorFixed
    /\ PollIdle
    /\ MnemonicIdle
    /\ AmbientIdle

NextFlow ==
    \/ ComponentSetup
    \/ ImportStep
    \/ BeginSetup
    \/ MigrateEntry
    \/ SetupEntry
    \/ UserFlowInit
    \/ ReauthStep
    \/ UserStep

SpecFlow == InitFlow /\ [][NextFlow]_vars

InitAmbient ==
    /\ AmbientFresh
    /\ configured \in {{}, {FirstMac}}
    /\ MnemonicIdle
    /\ VendorFixed
    /\ PollIdle
    /\ SetupIdle

NextAmbient ==
    \/ AmbientUserForm
    \/ AmbientUserStep
    \/ AmbientStationStep
    \/ AmbientMnemonicStep

SpecAmbient == InitAmbient /\ [][NextAmbient]_vars

(***************************************************************************)
(* Properties of create_mnemonic (SpecMnemonic).                           *)
(***************************************************************************)
\* the per-segment letters of all words of a name, in order, before truncation
SegmentLetters(t) == words_letters(str_split(t)).value

\* C1: for every name, create_mnemonic returns (it never raises) a string of at
\* most 4 characters, each an uppercase ASCII letter A-Z.
C1_UppercaseAtMostFour ==
    outcome # "pending" =>
        /\ outcome = "returned"
        /\ Len(mnemonic) <= 4
        /\ \A i \in DOMAIN mnemonic : mnemonic[i] \in Upper

\* a name with lowercase letters got a mnemonic of four letters
C1_Witness ==
    /\ outcome = "returned"
    /\ Len(mnemonic) = 4
    /\ \E i \in DOMAIN text : text[i] \in Lower

C5_MountainViewIsMOVI ==
    (outcome = "returned" /\ text = MountainView) => mnemonic = <<"M","O","V","I">>

\* C5 as amended: create_mnemonic("Mountain-View") == "MOUN": the segment
\* "Mountain-" adds all its letters before the hyphen, the segment "View" adds
\* its first letter, and the first four letters of "MOUNTAINV" are returned.
C5_MountainViewIsMOUN ==
    (outcome = "returned" /\ text = MountainView) =>
        /\ re_findall(MountainView)
             = <<SubSeq(MountainView, 1, 9), SubSeq(MountainView, 10, 13)>>
        /\ SegmentLetters(text) = <<"M","O","U","N","T","A","I","N","V">>
        /\ mnemonic = <<"M","O","U","N">>

C5_Witness == outcome = "returned" /\ text = MountainView

\* C6: create_mnemonic("Fort Collins") is a code of exactly four letters derived
\* from the words "Fort" and "Collins".
C6_FortCollinsFourLetters ==
    (outcome = "returned" /\ text = FortCollins) =>
        /\ Len(mnemonic) = 4
        /\ \A i \in DOMAIN mnemonic : mnemonic[i] \in Upper

\* C13: every letter-initial case-transition run of a word is a segment whatever
\* its length, and a segment adds the uppercase of its first character unless its
\* leading letters are followed by a hyphen or digit: a word that is a single
\* letter is one segment and adds that letter, and the mnemonic of "A B C D" is
\* "ABCD".
C13_SingleLetterWordContributes ==
    outcome = "returned" =>
        LET words == str_split(text)
        IN  /\ \A w \in DOMAIN words :
                  (Len(words[w]) = 1 /\ words[w][1] \in Lower \cup Upper) =>
                      /\ re_findall(words[w]) = <<words[w]>>
                      /\ words_letters(<<words[w]>>).value = <<char_upper(words[w][1])>>
            /\ text = ABCD => mnemonic = <<"A","B","C","D">>

(***************************************************************************)
(* Properties of the ambient_network config flow (SpecAmbient).            *)
(***************************************************************************)
IsSubmission(input, key) == key \in DOMAIN input

FlowEnded == flow_result.type \in {"abort", "create_entry"}

\* what holds at each form and at each end of the flow
WizardState ==
    /\ AtForm(CONFIG_STEP_STATION) =>
          /\ raised = None => IsSubmission(user_input, "location")
          /\ stations # <<>>
          /\ flow_result.options = station_options(stations)
          /\ flow_unique_id = <<>>
    /\ AtForm(CONFIG_STEP_MNEMONIC) =>
          /\ IsSubmission(user_input, "station")
          /\ \E o \in DOMAIN station_options(stations) :
                station_options(stations)[o].value = user_input.station
          /\ flow_unique_id = <<_mac_address>>
          /\ _mac_address \notin configured
          /\ flow_result.default = _mnemonic
    /\ flow_result.type = "create_entry" =>
          /\ IsSubmission(user_input, "mnemonic")
          /\ flow_unique_id = <<_mac_address>>
          /\ flow_result.data = [name |-> _name, mac_address |-> _mac_address,
                                 mnemonic |-> user_input.mnemonic]
    /\ flow_result.type = "abort" =>
          \/ /\ flow_result.reason = "no_stations_found"
             /\ IsSubmission(user_input, "location")
             /\ stations = <<>>
          \/ /\ flow_result.reason = "already_configured"
             /\ IsSubmission(user_input, "station")
             /\ flow_unique_id = <<_mac_address>>
             /\ _mac_address \in configured

\* what a step of the flow may do
WizardStep ==
    /\ ~FlowEnded
    /\ configured' # configured =>
          /\ AtForm(CONFIG_STEP_MNEMONIC)
          /\ flow_result'.type = "create_entry"
          /\ configured' = configured \cup {_mac_address}
    /\ flow_result'.type = "create_entry" => AtForm(CONFIG_STEP_MNEMONIC)
    /\ AtForm(CONFIG_STEP_MNEMONIC)' =>
          /\ AtForm(CONFIG_STEP_STATION)
          /\ IsSubmission(user_input', "station")
    /\ AtForm(CONFIG_STEP_STATION)' /\ flow_result' # flow_result =>
          /\ AtForm(CONFIG_STEP_USER)
          /\ IsSubmission(user_input', "location")
    /\ (IsSubmission(user_input', "location") /\ raised' = None /\ stations' = <<>>) =>
          flow_result' = Abort("no_stations_found")
    /\ (IsSubmission(user_input', "station") /\ raised' = None
            /\ _mac_address' \in configured) =>
          flow_result' = Abort("already_configured")
    /\ flow_result'.type = "abort" =>
          /\ configured' = configured
          /\ \/ AtForm(CONFIG_STEP_USER) /\ stations' = <<>>
                   /\ flow_result'.reason = "no_stations_found"
             \/ AtForm(CONFIG_STEP_STATION) /\ _mac_address' \in configured
                   /\ flow_result'.reason = "already_configured"

\* C14: the flow is a linear three-step wizard: an entry is created only by the
\* mnemonic step, which is entered only from a station-step submission whose MAC
\* address is the unique id of no entry, which is entered only from a user-step
\* submission; a lookup without stations aborts with no_stations_found and a MAC
\* address already configured aborts the flow, both without an entry; the entry
\* stores the mnemonic submitted in the mnemonic step.
C14_LinearWizard == []WizardState /\ [][WizardStep]_vars

\* an entry was created with a mnemonic that is not the generated one
C14_Witness ==
    /\ flow_result.type = "create_entry"
    /\ flow_result.data.mnemonic # _mnemonic
    /\ _mnemonic # <<>>

\* C16: for every station of the lookup, with any MAC address and name, the
\* station step given the option value the form holds for the station,
\* "<mac>,<mnemonic>,<name>", ends without error with the station's MAC address,
\* its generated mnemonic and its name in the fields of the flow.
C16_StationOptionRoundTrip ==
    IsSubmission(user_input, "station") =>
        /\ raised = None
        /\ \A i \in DOMAIN stations :
              station_options(stations)[i].value = user_input.station =>
                  /\ _mac_address = stations[i].macAddress
                  /\ _mnemonic = create_mnemonic(stations[i].info.name).value
                  /\ _name = stations[i].info.name

(***************************************************************************)
(* Properties of the coordinator (SpecPoll).                               *)
(***************************************************************************)
\* the sum, in gallons, of the reported usage of the events of a report that
\* have a run event, a zone and a reported usage
RECURSIVE ZoneAttributedGallons(_)
ZoneAttributedGallons(report) ==
    IF report = <<>>
    THEN 0
    ELSE (IF has_reported_use(Head(report))
          THEN _to_gallons(Head(report).run_event.reported_water_usage)
          ELSE 0)
         + ZoneAttributedGallons(Tail(report))

\* the active total A and the flow total T of the call last_call names
CallActive == ZoneAttributedGallons(watering_report[last_call[1]])
CallTotal == _to_gallons(water_flow_summary[last_call[2]].total_water_volume)
Max(a, b) == IF a > b THEN a ELSE b

\* C2: the controller entry written by _async_update_daily_water_use holds
\* total = max(T, A) and inactive = max(T, A) - A >= 0: total A and inactive 0
\* when A > T, total T and inactive T - A when T > A, total T and inactive 0
\* when A = T.
C2_ControllerEntry ==
    last_call # <<>> =>
        LET A == CallActive
            T == CallTotal
            written == daily_water_use[last_call[1]]
        IN  /\ A >= 0 /\ T >= 0
            /\ written.active = Max(T, A)
            /\ written.non_active = Max(T, A) - A
            /\ written.non_active >= 0
            /\ A > T => written = DailyWaterUse(A, 0)
            /\ T > A => written = DailyWaterUse(T, T - A)
            /\ A = T => written = DailyWaterUse(T, 0)

\* a call with zone-attributed use and a larger flow total
C2_Witness == last_call # <<>> /\ CallActive > 0 /\ CallTotal > CallActive

\* the mapping a first poll yields on given vendor data: the calls of
\* _async_update_daily_water_use, in the order of the loops, from an empty dict
RECURSIVE FirstPoll(_, _, _, _, _, _)
FirstPoll(u, reports, summaries, i, j, dwu) ==
    IF i > Len(u) THEN dwu
    ELSE IF j > Len(u[i].sensors) THEN FirstPoll(u, reports, summaries, i + 1, 1, dwu)
    ELSE FirstPoll(u, reports, summaries, i, j + 1,
                   IF is_flow_meter(u[i].sensors[j])
                   THEN _async_update_daily_water_use(
                            u[i], u[i].sensors[j], dwu,
                            reports[u[i].id], summaries[u[i].sensors[j].id])
                   ELSE dwu)

\* _async_update_data is at its return statement
AtReturn == pc = "loop" /\ ci > Len(user)

\* C3: after any earlier polls, the daily_water_use mapping _async_update_data
\* returns is the one a first poll on the same vendor data yields.
C3_Idempotent ==
    AtReturn =>
        daily_water_use = FirstPoll(user, watering_report, water_flow_summary, 1, 1, <<>>)

\* a poll about to return a mapping with volumes that differs from the mapping with
\* volumes an earlier poll left as the coordinator's data
C3_Witness ==
    /\ AtReturn
    /\ data # NoneObj
    /\ data.daily_water_use # daily_water_use
    /\ \E k \in DOMAIN data.daily_water_use : data.daily_water_use[k].active > 0
    /\ \E k \in DOMAIN daily_water_use : daily_water_use[k].active > 0

\* the stored active volume of a zone
StoredActive(dwu, z) == IF z.id \in DOMAIN dwu THEN dwu[z.id].active ELSE 0

RECURSIVE StoredZoneSum(_, _)
StoredZoneSum(dwu, zs) ==
    IF zs = <<>> THEN 0 ELSE StoredActive(dwu, Head(zs)) + StoredZoneSum(dwu, Tail(zs))

\* C10: after every poll, for every controller with a flow meter the stored active
\* volumes of its zones sum to at most the controller's stored total use, and no
\* stored volume is negative.
C10_ZoneSumWithinTotal ==
    (pc = "idle" /\ data # NoneObj) =>
        LET dwu == data.daily_water_use
        IN  /\ \A i \in FlowControllers(data.user) :
                  LET c == data.user[i]
                  IN  /\ c.id \in DOMAIN dwu
                      /\ StoredZoneSum(dwu, c.zones) <= dwu[c.id].active
            /\ \A k \in DOMAIN dwu : dwu[k].active >= 0 /\ dwu[k].non_active >= 0

\* the sum, in gallons, of the reported usage of the events of a report that
\* belong to the zone with id z and carry a reported usage, each counted once
RECURSIVE ZoneEventGallons(_, _)
ZoneEventGallons(report, z) ==
    IF report = <<>>
    THEN 0
    ELSE (IF has_reported_use(Head(report)) /\ Head(report).run_event.zone.id = z
          THEN _to_gallons(Head(report).run_event.reported_water_usage)
          ELSE 0)
         + ZoneEventGallons(Tail(report), z)

\* C11: the mapping a poll returns holds, for each zone of a controller with a flow
\* meter, an active volume equal to the sum in gallons of the reported usage of
\* exactly the events of the controller's report that belong to the zone and carry
\* a reported usage, each event counted once (nothing is stored for, or 0 is the
\* volume of, a zone without such events).
C11_ZoneActiveIsEventSum ==
    AtReturn =>
        \A i \in FlowControllers(user) :
            \A k \in DOMAIN user[i].zones :
                StoredActive(daily_water_use, user[i].zones[k])
                    = ZoneEventGallons(watering_report[user[i].id], user[i].zones[k].id)

\* the ids of the zones of an account
ZoneIds(u) == UNION {{u[i].zones[k].id : k \in DOMAIN u[i].zones} : i \in DOMAIN u}

\* the step is a call of _async_update_daily_water_use
CallStep == pc = "loop" /\ last_call' # <<>>

\* the dict of the call between its loop over the report and its write of the
\* controller entry
AfterReportLoop ==
    report_loop(watering_report[last_call'[1]], 1, 0, daily_water_use).daily_water_use

\* C12: in every call of _async_update_daily_water_use, the write of the
\* controller's (total, inactive) entry leaves the entry of every zone as the loop
\* over the report left it, and the loop's accumulation of zone volumes leaves the
\* entry of every controller as it was before the call, also when a zone id equals
\* a controller id.
C12_ZonesAndControllersApart ==
    [][CallStep =>
          /\ \A z \in ZoneIds(user) \cap DOMAIN AfterReportLoop :
                daily_water_use'[z] = AfterReportLoop[z]
          /\ \A c \in ControllerIds(user) \cap DOMAIN daily_water_use :
                /\ c \in DOMAIN AfterReportLoop
                /\ AfterReportLoop[c] = daily_water_use[c]]_vars

(***************************************************************************)
(* Properties of the setup (SpecSetup).                                    *)
(***************************************************************************)
HasReauthFlow(e) ==
    \E f \in DOMAIN flows : flows[f].source = SOURCE_REAUTH /\ flows[f].entry_id = e

\* C7: async_migrate_entry takes every version-1 entry to version 2 with no api_key
\* and with empty username and password, and the async_setup_entry that follows
\* raises ConfigEntryAuthFailed (state SETUP_ERROR, a reauth flow started) before a
\* client or coordinator is created or stored.
C7_MigrationForcesReauth ==
    \A e \in DOMAIN entries :
        LET entry == entries[e]
        IN  /\ entry.version = 1 => entry.pc \in {"idle", "migrate"}
            /\ entry.migrated =>
                 /\ entry.version = 2
                 /\ CONF_API_KEY \notin DOMAIN entry.data
                 /\ entry.data[CONF_USERNAME] = ""
                 /\ entry.data[CONF_PASSWORD] = ""
                 /\ entry.pc \in {"setup", "done"}
                 /\ e \notin client_created \cup refreshed \cup hass_data \cup forwarded
                 /\ entry.pc = "done" =>
                        entry.state = "SETUP_ERROR" /\ HasReauthFlow(e)

\* an entry that had an api_key was migrated and its setup has ended
C7_Witness ==
    \E e \in DOMAIN entries :
        /\ entries[e].migrated
        /\ entries[e].pc = "done"
        /\ entries[e].state = "SETUP_ERROR"
        /\ HasReauthFlow(e)

DeprecatedYamlIssue ==
    Issue(HOMEASSISTANT_DOMAIN, "deprecated_yaml_hydrawise", "deprecated_yaml")

ImportFlows == {f \in DOMAIN flows : flows[f].source = SOURCE_IMPORT}

\* C8: setup with a hydrawise section in the YAML starts an import flow that
\* carries the access token as api key; when that flow has ended by creating an
\* entry or by aborting as already configured, the issue deprecated_yaml_hydrawise
\* (translation key deprecated_yaml) exists; without hydrawise section no import
\* flow is started.
C8_ImportCreatesIssue ==
    /\ yaml = NoneObj => ImportFlows = {}
    /\ (yaml # NoneObj /\ setup_pc = "done") => ImportFlows # {}
    /\ \A f \in ImportFlows :
          /\ yaml # NoneObj
          /\ flows[f].api_key = yaml[CONF_ACCESS_TOKEN]
          /\ (\/ flows[f].result = "create_entry"
              \/ flows[f].result = "abort" /\ flows[f].reason = "already_configured")
             => DeprecatedYamlIssue \in issues

\* an import flow aborted because the account is already configured
C8_Witness ==
    \E f \in ImportFlows :
        flows[f].result = "abort" /\ flows[f].reason = "already_configured"

\* C9: hass.data[hydrawise][entry_id] holds a coordinator, and the platforms are
\* forwarded, only if the entry's first refresh completed successfully; a setup
\* whose first refresh failed ends in SETUP_RETRY.
C9_StoredOnlyAfterRefresh ==
    \A e \in DOMAIN entries :
        /\ e \in hass_data => e \in refreshed
        /\ e \in forwarded => e \in refreshed /\ e \in hass_data
        /\ (entries[e].pc = "done" /\ e \in client_created /\ e \notin refreshed)
           => entries[e].state = "SETUP_RETRY"
        /\ entries[e].state = "SETUP_RETRY" => e \notin hass_data \cup forwarded

\* the first refresh of an entry failed
C9_Witness ==
    \E e \in DOMAIN entries :
        /\ entries[e].state = "SETUP_RETRY"
        /\ e \in client_created
        /\ e \notin refreshed

(***************************************************************************)
(* Properties of the hydrawise config flows (SpecFlow).                    *)
(***************************************************************************)
\* the error a failed credential check is reported with
MappedError(exc) ==
    CASE exc = "NotAuthorizedError" -> "invalid_auth"
      [] exc = "TimeoutError" -> "timeout_connect"
      [] exc = "ClientError" -> "cannot_connect"

ImportIssue(error) ==
    Issue(HYDRAWISE_DOMAIN, "deprecated_yaml_import_issue_" \o error,
          "deprecated_yaml_import_issue")

\* the latest credential check of flow f failed
CheckFailed(fl, f) == fl[f].get_user \in ApiExceptions

\* the step is a step of flow f
StepOf(f) == f \in DOMAIN flows /\ f \in DOMAIN flows' /\ flows'[f] # flows[f]

\* the flows whose credential check has failed: how the failure is reported
FailureReported ==
    \A f \in DOMAIN flows :
        CheckFailed(flows, f) =>
            LET error == MappedError(flows[f].get_user)
            IN  /\ flows[f].unique_id = ""
                /\ IF flows[f].source = SOURCE_IMPORT
                   THEN /\ flows[f].result = "abort"
                        /\ flows[f].reason = error
                        /\ ImportIssue(error) \in issues
                        /\ DeprecatedYamlIssue \notin issues
                   ELSE /\ flows[f].result = "form"
                        /\ flows[f].errors = [base |-> error]

\* a step in which the credential check of a flow fails leaves the entries alone
FailureStep ==
    \A f \in DOMAIN flows :
        (StepOf(f) /\ CheckFailed(flows', f)) =>
            /\ entries' = entries
            /\ reloaded' = reloaded
            /\ flows'[f].unique_id = flows[f].unique_id

\* C15: when the credential check of a flow fails, no entry is created or updated
\* and no unique id is set; NotAuthorizedError is reported as invalid_auth,
\* TimeoutError as timeout_connect and ClientError as cannot_connect: the user
\* step shows the user form again with the error under errors["base"], the import
\* step aborts with the error as reason, with the issue
\* deprecated_yaml_import_issue_<error> and without the issue deprecated_yaml.
C15_FailureMapped == []FailureReported /\ [][FailureStep]_vars

\* the import flow aborted on a failed check and a user form shows an error
C15_Witness ==
    /\ \E f \in DOMAIN flows :
          /\ flows[f].source = SOURCE_IMPORT
          /\ flows[f].get_user = "TimeoutError"
          /\ flows[f].reason = "timeout_connect"
    /\ \E f \in DOMAIN flows :
          /\ flows[f].source = SOURCE_USER
          /\ flows[f].get_user = "ClientError"
          /\ flows[f].errors = [base |-> "cannot_connect"]

\* a reauth flow has created no entry
NoReauthEntry ==
    \A f \in DOMAIN flows :
        (flows[f].source = SOURCE_REAUTH \/ flows[f].reauth_entry # 0) =>
            flows[f].result # "create_entry"

\* what a step of a flow whose credential check succeeds does
SuccessStep ==
    /\ Len(entries') > Len(entries) =>
          \E f \in DOMAIN flows' :
              /\ flows'[f].result = "create_entry"
              /\ f \in DOMAIN flows => flows[f].result # "create_entry"
              /\ flows'[f].source # SOURCE_REAUTH
              /\ flows'[f].reauth_entry = 0
              /\ ~unique_id_configured(entries, flows'[f].unique_id)
    /\ \A f \in DOMAIN flows :
          (StepOf(f) /\ flows[f].reauth_entry # 0 /\ flows'[f].get_user = None) =>
              LET e == flows[f].reauth_entry
                  old == entries[e].data
                  new == entries'[e].data
              IN  /\ flows'[f].result = "abort"
                  /\ flows'[f].reason = "reauth_successful"
                  /\ DOMAIN entries' = DOMAIN entries
                  /\ \A x \in DOMAIN entries : x # e => entries'[x] = entries[x]
                  /\ \E input \in Credentials :
                        /\ new[CONF_USERNAME] = input.username
                        /\ new[CONF_PASSWORD] = input.password
                  /\ DOMAIN new = DOMAIN old \cup {CONF_USERNAME, CONF_PASSWORD}
                  /\ \A k \in DOMAIN old \ {CONF_USERNAME, CONF_PASSWORD} : new[k] = old[k]
                  /\ e \in reloaded'
                  /\ entries'[e].state = "NOT_LOADED"

\* C17: a reauth flow never creates an entry: after a successful credential check
\* it updates the entry it re-authenticates with the username and password
\* submitted, leaves the other data keys of the entry as they are, reloads the
\* entry and aborts with reason reauth_successful; an entry is created, after the
\* already-configured check, only by a flow that is no reauth flow.
C17_ReauthUpdatesEntry == []NoReauthEntry /\ [][SuccessStep]_vars

\* a reauth flow has updated and reloaded an entry that holds a further data key
C17_Witness ==
    \E f \in DOMAIN flows :
        /\ flows[f].source = SOURCE_REAUTH
        /\ flows[f].reason = "reauth_successful"
        /\ flows[f].reauth_entry \in reloaded
        /\ "scan_interval" \in DOMAIN entries[flows[f].reauth_entry].data
        /\ entries[flows[f].reauth_entry].data[CONF_USERNAME] = "user2"

=============================================================================
